---- MODULE Spec2Model ----
(***************************************************************************)
(* Model of acme/model_generators/create_lumped_CMF_model.py: the gene     *)
(* catalogue of LumpedCMFGenerator, the genotype operators create, mutate  *)
(* and crossover, the structural validator check_for_connection, the       *)
(* memoised get_fitness and the control flow of LumpedCMFGenerator.solve.  *)
(***************************************************************************)
EXTENDS Integers, Sequences, FiniteSets, TLC

VARIABLES
    pc,               \* position of the running function
    genes,            \* the genotype (a Python list) a function works on
    genes_before,     \* that list as it was when the call started
    rounds,           \* create: rounds of the second-layer loop so far
    first_parent,     \* crossover: first argument
    second_parent,    \* crossover: second argument
    child_genes,      \* crossover: the returned list
    mutation_type,    \* mutate: the kind drawn
    reps,             \* mutate: the number of repetitions drawn
    reps_done,        \* mutate: repetitions completed
    index,            \* mutate: the index drawn by the last swap
    initial_genes,    \* mutate: the local list of the swap branch
    models_so_far,    \* LumpedCMFGenerator.models_so_far, in insertion order
    calls,            \* get_fitness: runs of the template and the sampler
    fitness,          \* get_fitness: the value returned by the last call
    optimal_fitness,  \* solve: self.optimal_fitness
    best_fitness,     \* solve: best.fitness
    written           \* solve: the fitness handed to write_best_model

createVars == <<rounds>>

crossVars == <<first_parent, second_parent, child_genes>>

mutVars == <<mutation_type, reps, reps_done, index, initial_genes>>

fitVars == <<models_so_far, calls, fitness>>

solveVars == <<optimal_fitness, best_fitness, written>>

vars == <<pc, genes, genes_before, createVars, crossVars, mutVars, fitVars,
          solveVars>>

----------------------------------------------------------------------------
(* Bounds *)

\* rounds of the second-layer loop of create() that are explored
MaxRounds == 2

\* longest genotype handed to check_for_connection on its own
MaxGenes == 2

\* number of catalogue genes the parents of crossover are drawn from
CrossPool == 3

\* longest parent handed to crossover
MaxParentLen == 2

\* size of the gene_set argument of mutate (a prefix of the catalogue)
UniverseSize == 3

\* longest genotype handed to mutate
MaxGenotype == 3

\* longest genotype handed to get_fitness
MaxFitLen == 2

\* runs of the sampler that are explored
MaxCalls == 2

\* the sampler's bestlike ranges over 0..MaxLike
MaxLike == 1

\* fitness values of solve range over 0..MaxFitness
MaxFitness == 6

----------------------------------------------------------------------------
(* Python list helpers *)

\* x in lst
In(x, lst) == \E i \in 1..Len(lst) : lst[i] = x

\* set(lst)
ToSet(lst) == {lst[i] : i \in 1..Len(lst)}

\* the list holds no element twice
NoDuplicates(lst) == \A i, j \in 1..Len(lst) : lst[i] = lst[j] => i = j

\* all lists over S of length at most n
BoundedSeq(S, n) == UNION {[1..k -> S] : k \in 0..n}

\* lst[:k] and lst[k:]
Prefix(lst, k) == SubSeq(lst, 1, k)

Suffix(lst, k) == SubSeq(lst, k + 1, Len(lst))

\* the orders random.shuffle(lst) can leave lst in
Shuffles(lst) ==
    {[i \in 1..Len(lst) |-> lst[p[i]]] : p \in Permutations(1..Len(lst))}

\* the lists list(S) can be for a set S (iteration order is unspecified)
ListsOfSet(S) == {l \in [1..Cardinality(S) -> S] : ToSet(l) = S}

\* the list one "if random.random() < threshold: genes.append(g)" adds
Trial(b, g) == IF b THEN <<g>> ELSE <<>>

----------------------------------------------------------------------------
(* LumpedCMFGenerator: the gene catalogue *)

storages == <<"snow", "canopy", "second_layer", "third_layer", "river">>

connections == <<"tr_first_out", "tr_first_river", "tr_first_third",
                 "tr_second_third", "tr_second_river_or_out",
                 "tr_third_river_or_out", "river_out">>

snow_params == <<"meltrate", "snow_melt_temp">>

canopy_params == <<"lai", "canopy_closure">>

first_layer_params == <<"beta_first_out", "beta_first_river",
                        "beta_first_second", "v0_first_out",
                        "v0_first_river", "v0_first_second">>

second_layer_params == <<"beta_second_river", "beta_second_third">>

third_layer_params == <<"beta_third_river">>

river_params == <<"beta_river_out">>

params == snow_params \o canopy_params \o first_layer_params \o
          second_layer_params \o third_layer_params \o river_params

gene_set == storages \o connections \o params

\* the characters of a connection name, for the substring test of
\* check_for_connection
Chars(c) ==
    CASE c = "tr_first_out" -> <<"t", "r", "_", "f", "i", "r", "s", "t", "_", "o", "u", "t">>
      [] c = "tr_first_river" -> <<"t", "r", "_", "f", "i", "r", "s", "t", "_", "r", "i", "v", "e", "r">>
      [] c = "tr_first_third" -> <<"t", "r", "_", "f", "i", "r", "s", "t", "_", "t", "h", "i", "r", "d">>
      [] c = "tr_second_third" -> <<"t", "r", "_", "s", "e", "c", "o", "n", "d", "_", "t", "h", "i", "r", "d">>
      [] c = "tr_second_river_or_out" -> <<"t", "r", "_", "s", "e", "c", "o", "n", "d", "_", "r", "i", "v", "e", "r", "_", "o", "r", "_", "o", "u", "t">>
      [] c = "tr_third_river_or_out" -> <<"t", "r", "_", "t", "h", "i", "r", "d", "_", "r", "i", "v", "e", "r", "_", "o", "r", "_", "o", "u", "t">>
      [] c = "river_out" -> <<"r", "i", "v", "e", "r", "_", "o", "u", "t">>
      [] OTHER -> <<>>

\* Python's  sub in s  on strings: sub occurs in s as a contiguous run
Contains(sub, s) ==
    \E k \in 0..(Len(s) - Len(sub)) :
        \A i \in 1..Len(sub) : s[k + i] = sub[i]

----------------------------------------------------------------------------
(* create() *)

\* the while condition of the second-layer loop
second_layer_loop_cond(g) ==
    ~In("tr_second_third", g) \/ ~In("tr_second_river", g)

\* a snow block whose parameter trials do not depend on the snow trial
CreateSnowFlat ==
    /\ pc = "snow"
    /\ \E b1, b2, b3 \in BOOLEAN :
         genes' = genes \o Trial(b1, "snow") \o Trial(b2, "meltrate")
                        \o Trial(b3, "snow_melt_temp")
    /\ pc' = "canopy"
    /\ UNCHANGED <<genes_before, rounds, crossVars, mutVars, fitVars, solveVars>>

CreateSnow ==
    /\ pc = "snow"
    /\ \E b1, b2, b3 \in BOOLEAN :
         genes' = IF b1
                  THEN genes \o <<"snow">> \o Trial(b2, "meltrate")
                             \o Trial(b3, "snow_melt_temp")
                  ELSE genes
    /\ pc' = "canopy"
    /\ UNCHANGED <<genes_before, rounds, crossVars, mutVars, fitVars, solveVars>>

CreateCanopy ==
    /\ pc = "canopy"
    /\ \E b1, b2, b3 \in BOOLEAN :
         genes' = IF b1
                  THEN genes \o <<"canopy">> \o Trial(b2, "canopy_closure")
                             \o Trial(b3, "lai")
                  ELSE genes
    /\ pc' = "layers"
    /\ UNCHANGED <<genes_before, rounds, crossVars, mutVars, fitVars, solveVars>>

CreateLayers ==
    /\ pc = "layers"
    /\ \E b1, b2, b3 \in BOOLEAN :
         genes' = (IF b1
                   THEN genes \o <<"second_layer">> \o Trial(b2, "third_layer")
                   ELSE genes) \o Trial(b3, "river")
    /\ pc' = "first_second"
    /\ UNCHANGED <<genes_before, rounds, crossVars, mutVars, fitVars, solveVars>>

CreateFirstSecond ==
    /\ pc = "first_second"
    /\ \E b1, b2, b3 \in BOOLEAN :
         genes' = IF b1
                  THEN genes \o <<"tr_first_second">>
                             \o Trial(b2, "beta_first_second")
                             \o Trial(b3, "v0_first_second")
                  ELSE genes
    /\ pc' = "first_river"
    /\ UNCHANGED <<genes_before, rounds, crossVars, mutVars, fitVars, solveVars>>

CreateFirstRiver ==
    /\ pc = "first_river"
    /\ \E b1, b2, b3 \in BOOLEAN :
         genes' = IF b1
                  THEN genes \o <<"tr_first_river">>
                             \o Trial(b2, "beta_first_river")
                             \o Trial(b3, "v0_first_river")
                  ELSE genes
    /\ pc' = "first_out"
    /\ UNCHANGED <<genes_before, rounds, crossVars, mutVars, fitVars, solveVars>>

CreateFirstOut ==
    /\ pc = "first_out"
    /\ \E b1, b2, b3 \in BOOLEAN :
         genes' = IF b1
                  THEN genes \o <<"tr_first_out">>
                             \o Trial(b2, "beta_first_out")
                             \o Trial(b3, "v0_first_out")
                  ELSE genes
    /\ pc' = "second"
    /\ UNCHANGED <<genes_before, rounds, crossVars, mutVars, fitVars, solveVars>>

\* a round that appends tr_second_river_or_out, the catalogue's name
second_round_genes_catalogue(b1, b2, b3, b4) ==
    (IF b1
     THEN <<"tr_second_third">> \o Trial(b2, "beta_second_third")
     ELSE <<>>)
    \o (IF b3
        THEN <<"tr_second_river_or_out">> \o Trial(b4, "beta_second_river")
        ELSE <<>>)

\* the genes one round of the second-layer loop appends, by trial outcome
second_round_genes(b1, b2, b3, b4) ==
    (IF b1
     THEN <<"tr_second_third">> \o Trial(b2, "beta_second_third")
     ELSE <<>>)
    \o (IF b3
        THEN <<"tr_second_river">> \o Trial(b4, "beta_second_river")
        ELSE <<>>)

\* one round of the while loop at "Connections second layer" with the given
\* trial outcomes
SecondRound(b1, b2, b3, b4) ==
    /\ pc = "second"
    /\ In("second_layer", genes)
    /\ second_layer_loop_cond(genes)
    /\ genes' = genes \o second_round_genes(b1, b2, b3, b4)
    /\ rounds' = IF rounds < MaxRounds THEN rounds + 1 ELSE rounds
    /\ UNCHANGED <<pc, genes_before, crossVars, mutVars, fitVars, solveVars>>

\* the rounds that append only genes the list does not hold yet
AppendsNewOnly(b1, b2, b3, b4) ==
    \A i \in 1..Len(second_round_genes(b1, b2, b3, b4)) :
        ~In(second_round_genes(b1, b2, b3, b4)[i], genes)

\* any of the first MaxRounds rounds
CreateSecondRound ==
    /\ rounds < MaxRounds
    /\ \E b1, b2, b3, b4 \in BOOLEAN : SecondRound(b1, b2, b3, b4)

\* The loop has no iteration cap.  Of the rounds after the first MaxRounds,
\* those that append no gene a second time are explored, which keeps the
\* list finite; a round in which every trial fails leaves the state as it is.
CreateSecondRoundLate ==
    /\ rounds >= MaxRounds
    /\ \E b1, b2, b3, b4 \in BOOLEAN :
         /\ AppendsNewOnly(b1, b2, b3, b4)
         /\ SecondRound(b1, b2, b3, b4)

\* the loop is skipped or left; third layer, river parameter and return
CreateThirdRiverReturn ==
    /\ pc = "second"
    /\ ~(In("second_layer", genes) /\ second_layer_loop_cond(genes))
    /\ \E b1, b2 \in BOOLEAN :
         genes' = genes
                  \o (IF In("third_layer", genes)
                      THEN <<"tr_third_river">>
                           \o Trial(b1, "beta_third_river")
                      ELSE <<>>)
                  \o (IF In("river", genes)
                      THEN Trial(b2, "beta_river_out")
                      ELSE <<>>)
    /\ pc' = "returned"
    /\ UNCHANGED <<genes_before, rounds, crossVars, mutVars, fitVars, solveVars>>

----------------------------------------------------------------------------
(* check_for_connection(genes) *)

\* the list  outgoing  built by the first loop
outgoing == SelectSeq(connections, LAMBDA c : Contains(<<"o", "u", "t">>, Chars(c)))

\* the flag  to_outlet  after the second loop
to_outlet(g) == \E i \in 1..Len(outgoing) : In(outgoing[i], g)

\* a validator that puts the default connection in front
check_for_connection_front(g) ==
    IF ~to_outlet(g) THEN <<"tr_first_out">> \o g ELSE g

\* a validator that appends without looking at the flag
check_for_connection_always(g) == g \o <<"tr_first_out">>

\* the list  genes  after the call
check_for_connection(g) ==
    IF ~to_outlet(g) THEN g \o <<"tr_first_out">> ELSE g

\* the driver passes the created genotype through the validator
CheckCreated ==
    /\ pc = "returned"
    /\ genes_before' = genes
    /\ genes' = check_for_connection(genes)
    /\ pc' = "checked"
    /\ UNCHANGED <<rounds, crossVars, mutVars, fitVars, solveVars>>

----------------------------------------------------------------------------
(* create() followed by check_for_connection *)

\* the variables of the functions a specification does not run
CreateIdle == rounds = 0

CrossIdle == first_parent = <<>> /\ second_parent = <<>> /\ child_genes = <<>>

MutIdle ==
    /\ mutation_type = "none"
    /\ reps = 0
    /\ reps_done = 0
    /\ index = 0
    /\ initial_genes = <<>>

\* -1 stands for "no value yet"
FitIdle == models_so_far = <<>> /\ calls = 0 /\ fitness = -1

SolveIdle == optimal_fitness = 0 /\ best_fitness = -1 /\ written = -1

Init ==
    /\ pc = "snow"
    /\ genes = <<>>
    /\ genes_before = <<>>
    /\ rounds = 0
    /\ CrossIdle /\ MutIdle /\ FitIdle /\ SolveIdle

Next ==
    \/ CreateSnow
    \/ CreateCanopy
    \/ CreateLayers
    \/ CreateFirstSecond
    \/ CreateFirstRiver
    \/ CreateFirstOut
    \/ CreateSecondRound
    \/ CreateThirdRiverReturn
    \/ CheckCreated

Spec == Init /\ [][Next]_vars

----------------------------------------------------------------------------
(* create() from the layer trials on, with the assumptions about its     *)
(* random trials                                                         *)

\* a round of the second-layer loop that is explored
RoundExplored(b1, b2, b3, b4) ==
    /\ rounds < MaxRounds \/ AppendsNewOnly(b1, b2, b3, b4)
    /\ SecondRound(b1, b2, b3, b4)

\* a round in which the trial for tr_second_third succeeds
ThirdTrialSucceeds == \E b2, b3, b4 \in BOOLEAN : RoundExplored(TRUE, b2, b3, b4)

\* a round in which the trial for tr_second_river succeeds
RiverTrialSucceeds == \E b1, b2, b4 \in BOOLEAN : RoundExplored(b1, b2, TRUE, b4)

\* the statements after the canopy block and outside the second-layer loop
CreateStraightLine ==
    \/ CreateLayers
    \/ CreateFirstSecond
    \/ CreateFirstRiver
    \/ CreateFirstOut
    \/ CreateThirdRiverReturn

\* create() at "# Layers", the snow and the canopy trial having failed
InitCreateLayers ==
    /\ pc = "layers"
    /\ genes = <<>>
    /\ genes_before = <<>>
    /\ rounds = 0
    /\ CrossIdle /\ MutIdle /\ FitIdle /\ SolveIdle

NextCreateLayers ==
    \/ CreateLayers
    \/ CreateFirstSecond
    \/ CreateFirstRiver
    \/ CreateFirstOut
    \/ CreateSecondRound
    \/ CreateSecondRoundLate
    \/ CreateThirdRiverReturn

SpecCreateLayers == InitCreateLayers /\ [][NextCreateLayers]_vars

\* the interpreter keeps executing, and a trial that is attempted again and
\* again eventually succeeds
FairSpecCreate ==
    /\ SpecCreateLayers
    /\ WF_vars(CreateStraightLine)
    /\ SF_vars(ThirdTrialSucceeds)
    /\ SF_vars(RiverTrialSucceeds)

----------------------------------------------------------------------------
(* check_for_connection on an arbitrary genotype, applied twice *)

\* the names create() appends that the catalogue does not hold
create_only_genes == {"tr_first_second", "tr_second_river", "tr_third_river"}

\* every gene name that occurs in the module
all_gene_names == ToSet(gene_set) \cup create_only_genes

ValidatorCall ==
    /\ pc \in {"validate", "validated"}
    /\ genes_before' = genes
    /\ genes' = check_for_connection(genes)
    /\ pc' = IF pc = "validate" THEN "validated" ELSE "revalidated"
    /\ UNCHANGED <<createVars, crossVars, mutVars, fitVars, solveVars>>

InitValidator ==
    /\ pc = "validate"
    /\ genes \in BoundedSeq(all_gene_names, MaxGenes)
    /\ genes_before = genes
    /\ CreateIdle /\ CrossIdle /\ MutIdle /\ FitIdle /\ SolveIdle

NextValidator == ValidatorCall

SpecValidator == InitValidator /\ [][NextValidator]_vars

----------------------------------------------------------------------------
(* crossover(first_parent, second_parent) *)

\* crossover returning the concatenation without the pass through set()
crossover_no_set(first, second, index_first_parent, index_second_parent) ==
    {Prefix(first, index_first_parent) \o Suffix(second, index_second_parent)}

\* the lists crossover can return for the two split points
crossover_children(first, second, index_first_parent, index_second_parent) ==
    ListsOfSet(ToSet(Prefix(first, index_first_parent)
                     \o Suffix(second, index_second_parent)))

Crossover ==
    /\ pc = "crossover"
    /\ \E index_first_parent \in 0..Len(first_parent),
          index_second_parent \in 0..Len(second_parent) :
         child_genes' \in crossover_children(first_parent, second_parent,
                                             index_first_parent,
                                             index_second_parent)
    /\ pc' = "crossed"
    /\ UNCHANGED <<genes, genes_before, first_parent, second_parent,
                   createVars, mutVars, fitVars, solveVars>>

InitCrossover ==
    /\ pc = "crossover"
    /\ first_parent \in BoundedSeq(ToSet(Prefix(gene_set, CrossPool)), MaxParentLen)
    /\ second_parent \in BoundedSeq(ToSet(Prefix(gene_set, CrossPool)), MaxParentLen)
    /\ child_genes = <<>>
    /\ genes = <<>>
    /\ genes_before = <<>>
    /\ CreateIdle /\ MutIdle /\ FitIdle /\ SolveIdle

NextCrossover == Crossover

SpecCrossover == InitCrossover /\ [][NextCrossover]_vars

----------------------------------------------------------------------------
(* mutate(genes, gene_set) *)

max_changes == 3

\* the gene_set argument: a prefix of LumpedCMFGenerator.gene_set
mutate_gene_set == Prefix(gene_set, UniverseSize)

\* position after a completed repetition of a for loop
AfterRepetition(loop) == IF reps_done + 1 = reps THEN "mutated" ELSE loop

MutateBegin ==
    /\ pc = "mutate"
    /\ \E t \in {"add", "del", "swap"}, n \in 1..max_changes :
         /\ mutation_type' = t
         /\ reps' = n
         /\ pc' = t
    /\ reps_done' = 0
    /\ UNCHANGED <<genes, genes_before, index, initial_genes,
                   createVars, crossVars, fitVars, solveVars>>

\* an add head whose full-universe fallback shuffles without the pop
MutateAddNoPop ==
    /\ pc = "add"
    /\ IF ToSet(genes) = ToSet(mutate_gene_set)
       THEN /\ genes' \in Shuffles(genes)
            /\ reps_done' = reps_done + 1
            /\ pc' = "mutated"
       ELSE /\ pc' = "add_sample"
            /\ UNCHANGED <<genes, reps_done>>
    /\ UNCHANGED <<genes_before, mutation_type, reps, index, initial_genes,
                   createVars, crossVars, fitVars, solveVars>>

\* head of a repetition of the add loop: the full-universe fallback
MutateAdd ==
    /\ pc = "add"
    /\ IF ToSet(genes) = ToSet(mutate_gene_set)
       THEN /\ \E shuffled \in Shuffles(genes) :
                 genes' = Prefix(shuffled, Len(shuffled) - 1)
            /\ reps_done' = reps_done + 1
            /\ pc' = "mutated"
       ELSE /\ pc' = "add_sample"
            /\ UNCHANGED <<genes, reps_done>>
    /\ UNCHANGED <<genes_before, mutation_type, reps, index, initial_genes,
                   createVars, crossVars, fitVars, solveVars>>

\* a sampling pass that appends the sample without the membership test
MutateAddSampleUnchecked ==
    /\ pc = "add_sample"
    /\ \E i \in 1..Len(mutate_gene_set) :
         genes' = Append(genes, mutate_gene_set[i])
    /\ reps_done' = reps_done + 1
    /\ pc' = AfterRepetition("add")
    /\ UNCHANGED <<genes_before, mutation_type, reps, index, initial_genes,
                   createVars, crossVars, fitVars, solveVars>>

\* one pass of the "while True" sampling loop of the add branch
MutateAddSample ==
    /\ pc = "add_sample"
    /\ \E i \in 1..Len(mutate_gene_set) :
         LET new_gene == mutate_gene_set[i] IN
         IF ~In(new_gene, genes)
         THEN /\ genes' = Append(genes, new_gene)
              /\ reps_done' = reps_done + 1
              /\ pc' = AfterRepetition("add")
         ELSE UNCHANGED <<genes, reps_done, pc>>
    /\ UNCHANGED <<genes_before, mutation_type, reps, index, initial_genes,
                   createVars, crossVars, fitVars, solveVars>>

\* a delete branch whose empty-list fallback does not leave the loop
MutateDelNoBreak ==
    /\ pc = "del"
    /\ IF Len(genes) = 0
       THEN \E i \in 1..Len(mutate_gene_set) :
                 genes' = Append(genes, mutate_gene_set[i])
       ELSE \E shuffled \in Shuffles(genes) :
                 genes' = Prefix(shuffled, Len(shuffled) - 1)
    /\ pc' = AfterRepetition("del")
    /\ reps_done' = reps_done + 1
    /\ UNCHANGED <<genes_before, mutation_type, reps, index, initial_genes,
                   createVars, crossVars, fitVars, solveVars>>

MutateDel ==
    /\ pc = "del"
    /\ IF Len(genes) = 0
       THEN /\ \E i \in 1..Len(mutate_gene_set) :
                 genes' = Append(genes, mutate_gene_set[i])
            /\ pc' = "mutated"
       ELSE /\ \E shuffled \in Shuffles(genes) :
                 genes' = Prefix(shuffled, Len(shuffled) - 1)
            /\ pc' = AfterRepetition("del")
    /\ reps_done' = reps_done + 1
    /\ UNCHANGED <<genes_before, mutation_type, reps, index, initial_genes,
                   createVars, crossVars, fitVars, solveVars>>

\* the gene the swap branch stores at the chosen index
swap_replacement(current, new_gene, alternate) ==
    IF new_gene = current THEN alternate ELSE new_gene

MutateSwap ==
    /\ pc = "swap"
    /\ IF Len(genes) = 0
       THEN \* random.randrange(0, 0) raises ValueError
            /\ initial_genes' = genes
            /\ pc' = "raised"
            /\ UNCHANGED <<genes, index, reps_done>>
       ELSE /\ \E idx \in 0..(Len(genes) - 1),
                  s1, s2 \in 1..Len(mutate_gene_set) :
                 /\ s1 # s2
                 /\ index' = idx
                 /\ initial_genes' =
                      [genes EXCEPT ![idx + 1] =
                          swap_replacement(genes[idx + 1],
                                           mutate_gene_set[s1],
                                           mutate_gene_set[s2])]
            /\ UNCHANGED genes   \* only the copy initial_genes is assigned
            /\ reps_done' = reps_done + 1
            /\ pc' = AfterRepetition("swap")
    /\ UNCHANGED <<genes_before, mutation_type, reps,
                   createVars, crossVars, fitVars, solveVars>>

InitMutate ==
    /\ pc = "mutate"
    /\ genes \in BoundedSeq(ToSet(mutate_gene_set) \cup {"tr_first_second"},
                            MaxGenotype)
    /\ genes_before = genes
    /\ CreateIdle /\ CrossIdle /\ MutIdle /\ FitIdle /\ SolveIdle

NextMutate ==
    \/ MutateBegin
    \/ MutateAdd
    \/ MutateAddSample
    \/ MutateDel
    \/ MutateSwap

SpecMutate == InitMutate /\ [][NextMutate]_vars

----------------------------------------------------------------------------
(* get_fitness(genes, data, obj_func, algorithm) *)

\* " ".join(genes): the words with one blank between neighbours
key_join(g) ==
    IF Len(g) = 0 THEN <<>>
    ELSE [i \in 1..(2 * Len(g) - 1) |->
             IF i % 2 = 1 THEN g[(i + 1) \div 2] ELSE " "]

\* old_model.split(" "): as split(), but the empty string gives [""]
key_split_blank(key) ==
    IF key = <<>> THEN <<"">> ELSE SelectSeq(key, LAMBDA w : w # " ")

\* old_model.split(): the words between the blanks
key_split(key) == SelectSeq(key, LAMBDA w : w # " ")

\* a comparison of the two lists as lists, order included
same_model_ordered(old_model_genes, g) == old_model_genes = g

\* the comparison of a cached model with the argument
same_model(old_model_genes, g) == ToSet(old_model_genes) = ToSet(g)

\* positions of the cache entries the scan accepts for g
cache_hits(cache, g) ==
    {i \in 1..Len(cache) : same_model(key_split(cache[i].key), g)}

\* the first of them in iteration order
first_hit(cache, g) ==
    CHOOSE i \in cache_hits(cache, g) : \A j \in cache_hits(cache, g) : i <= j

\* models_so_far[model_key] = best_like
dict_store(cache, model_key, best_like) ==
    IF \E i \in 1..Len(cache) : cache[i].key = model_key
    THEN [i \in 1..Len(cache) |->
             IF cache[i].key = model_key
             THEN [key |-> model_key, value |-> best_like]
             ELSE cache[i]]
    ELSE Append(cache, [key |-> model_key, value |-> best_like])

\* the genes the arguments of get_fitness are drawn from
fitness_genes == {"snow", "river"}

GetFitness ==
    /\ pc = "fitness"
    /\ \E g \in BoundedSeq(fitness_genes, MaxFitLen) :
         /\ genes' = g
         /\ IF cache_hits(models_so_far, g) # {}
            THEN /\ fitness' = models_so_far[first_hit(models_so_far, g)].value
                 /\ UNCHANGED <<models_so_far, calls>>
            ELSE /\ calls < MaxCalls
                 /\ \E best_like \in 0..MaxLike :
                      /\ models_so_far' =
                           dict_store(models_so_far, key_join(g), best_like)
                      /\ fitness' = best_like
                 /\ calls' = calls + 1
    /\ UNCHANGED <<pc, genes_before, createVars, crossVars, mutVars, solveVars>>

InitFitness ==
    /\ pc = "fitness"
    /\ genes = <<>>
    /\ genes_before = <<>>
    /\ CreateIdle /\ CrossIdle /\ MutIdle /\ FitIdle /\ SolveIdle

NextFitness == GetFitness

SpecFitness == InitFitness /\ [][NextFitness]_vars

----------------------------------------------------------------------------
(* LumpedCMFGenerator.solve() *)

\* genetic.get_best returns the individual  best
SolveGetBest ==
    /\ pc = "get_best"
    /\ best_fitness' \in 0..MaxFitness
    /\ pc' = "while"
    /\ UNCHANGED <<genes, genes_before, optimal_fitness, written,
                   createVars, crossVars, mutVars, fitVars>>

\* the test of "while not self.optimal_fitness > best.fitness"
SolveWhile ==
    /\ pc = "while"
    /\ pc' = IF ~(optimal_fitness > best_fitness) THEN "pass" ELSE "write"
    /\ UNCHANGED <<genes, genes_before, solveVars,
                   createVars, crossVars, mutVars, fitVars>>

\* the loop body
SolvePass ==
    /\ pc = "pass"
    /\ pc' = "while"
    /\ UNCHANGED <<genes, genes_before, solveVars,
                   createVars, crossVars, mutVars, fitVars>>

\* write_best_model(best) and return
SolveWrite ==
    /\ pc = "write"
    /\ written' = best_fitness
    /\ pc' = "done"
    /\ UNCHANGED <<genes, genes_before, optimal_fitness, best_fitness,
                   createVars, crossVars, mutVars, fitVars>>

InitSolve ==
    /\ pc = "get_best"
    /\ optimal_fitness \in 0..MaxFitness
    /\ best_fitness = -1
    /\ written = -1
    /\ genes = <<>>
    /\ genes_before = <<>>
    /\ CreateIdle /\ CrossIdle /\ MutIdle /\ FitIdle

NextSolve ==
    \/ SolveGetBest
    \/ SolveWhile
    \/ SolvePass
    \/ SolveWrite

SpecSolve == InitSolve /\ [][NextSolve]_vars

\* solve() runs in a thread that keeps executing while it has a next step
FairSpecSolve == SpecSolve /\ WF_vars(NextSolve)

----------------------------------------------------------------------------
(* Properties *)

\* the connection genes whose target is the outlet
OutletGenes == {"tr_first_out", "tr_second_river_or_out",
                "tr_third_river_or_out", "river_out"}

HasOutletGene(g) == \E i \in 1..Len(g) : g[i] \in OutletGenes

\* C1: of two successive get_fitness calls with the same gene set, the
\* second returns the value of the first and does not run the sampler again
C1_CacheIdempotence ==
    [][(fitness # -1 /\ ToSet(genes') = ToSet(genes))
         => (fitness' = fitness /\ calls' = calls)]_vars

\* a call with [river, snow] answered from the entry stored for
\* [snow, river], the sampler having run once
C1_Witness ==
    /\ pc = "fitness"
    /\ Len(models_so_far) = 1
    /\ models_so_far[1].key = <<"snow", " ", "river">>
    /\ genes = <<"river", "snow">>
    /\ fitness = models_so_far[1].value
    /\ calls = 1

\* C2: every genotype returned by create() holds a connection gene whose
\* target is the outlet
C2_CreateHasOutlet == pc = "returned" => HasOutletGene(genes)

\* C3: after create() and check_for_connection every present storage with
\* catalogue connections has a catalogue connection leaving it, and an
\* outlet connection is present
C3_CreatedValidatedConnected ==
    pc = "checked" =>
        /\ In("second_layer", genes) =>
             (In("tr_second_third", genes) \/ In("tr_second_river_or_out", genes))
        /\ In("third_layer", genes) => In("tr_third_river_or_out", genes)
        /\ In("river", genes) => In("river_out", genes)
        /\ HasOutletGene(genes)

\* C4: after check_for_connection the genotype holds an outlet connection;
\* when it held none before, it is the old list with tr_first_out appended
C4_ValidatorAppendsOutlet ==
    pc \in {"validated", "revalidated"} =>
        /\ HasOutletGene(genes)
        /\ ~HasOutletGene(genes_before) =>
             genes = Append(genes_before, "tr_first_out")

\* the example {canopy, lai}
C4_Witness ==
    /\ pc = "validated"
    /\ genes_before = <<"canopy", "lai">>
    /\ genes = <<"canopy", "lai", "tr_first_out">>

\* C5: check_for_connection leaves a genotype with an outlet connection
\* unchanged, and a second application changes nothing
C5_ValidatorIdempotent ==
    /\ (pc \in {"validated", "revalidated"} /\ HasOutletGene(genes_before))
         => genes = genes_before
    /\ pc = "revalidated" => genes = genes_before

\* the second application to a genotype the first one repaired
C5_Witness ==
    /\ pc = "revalidated"
    /\ genes_before = <<"canopy", "lai", "tr_first_out">>
    /\ genes = <<"canopy", "lai", "tr_first_out">>

\* C6: the child of crossover has no duplicate gene, its genes come from
\* the parents, and the parents are not modified
C6_CrossoverChild ==
    /\ [](pc = "crossed" =>
            /\ NoDuplicates(child_genes)
            /\ ToSet(child_genes) \subseteq
                 (ToSet(first_parent) \cup ToSet(second_parent)))
    /\ [][first_parent' = first_parent /\ second_parent' = second_parent]_vars

\* parents with repeated and shared genes, split at 2 and 0
C6_Witness ==
    /\ pc = "crossed"
    /\ first_parent = <<"snow", "snow">>
    /\ second_parent = <<"canopy", "snow">>
    /\ Len(child_genes) = 2

\* C7: a single-repetition swap on a non-empty genotype changes the
\* caller's genotype at exactly the chosen index
C7_SwapChangesGenotype ==
    (pc = "mutated" /\ mutation_type = "swap" /\ reps = 1
        /\ Len(genes_before) > 0) =>
        /\ Len(genes) = Len(genes_before)
        /\ genes[index + 1] # genes_before[index + 1]
        /\ \A i \in 1..Len(genes) :
             i # index + 1 => genes[i] = genes_before[i]

\* C8: once get_best has returned a best individual whose fitness reaches
\* optimal_fitness, solve() eventually writes it and returns
C8_SolveWritesBest ==
    (pc = "while" /\ best_fitness >= optimal_fitness)
        ~> (pc = "done" /\ written = best_fitness)

\* C9: no gene occurs twice in a genotype returned by create()
C9_CreateNoDuplicates == pc = "returned" => NoDuplicates(genes)

\* C10: every gene of a genotype returned by create() is in gene_set
C10_CreateInGeneSet == pc = "returned" => ToSet(genes) \subseteq ToSet(gene_set)

\* a genotype without duplicates whose genes all belong to mutate's gene_set
DupFreeOverUniverse(g) ==
    NoDuplicates(g) /\ ToSet(g) \subseteq ToSet(mutate_gene_set)

\* C11: an add mutation keeps a duplicate-free genotype over the universe
\* duplicate-free, inside the universe and no longer than the universe;
\* started on the full universe it removes exactly one gene and adds none
C11_AddKeepsGenotypeLegal ==
    (mutation_type = "add" /\ DupFreeOverUniverse(genes_before)) =>
        /\ DupFreeOverUniverse(genes)
        /\ Len(genes) <= Len(mutate_gene_set)
        /\ (pc = "mutated" /\ ToSet(genes_before) = ToSet(mutate_gene_set)) =>
             /\ Len(genes) = Len(genes_before) - 1
             /\ ToSet(genes) \subseteq ToSet(genes_before)

\* an add mutation that started on the full universe and has returned
C11_Witness ==
    /\ pc = "mutated"
    /\ mutation_type = "add"
    /\ reps = 3
    /\ genes_before = mutate_gene_set
    /\ Len(genes) = Len(mutate_gene_set) - 1

\* C12: a delete mutation started on an empty genotype ends with exactly
\* one gene of the universe, whatever number of repetitions was drawn
C12_DeleteOnEmptyAddsOne ==
    (pc = "mutated" /\ mutation_type = "del" /\ genes_before = <<>>) =>
        /\ Len(genes) = 1
        /\ genes[1] \in ToSet(mutate_gene_set)

\* three repetitions drawn on the empty genotype
C12_Witness ==
    /\ pc = "mutated"
    /\ mutation_type = "del"
    /\ reps = 3
    /\ genes_before = <<>>
    /\ genes = <<"canopy">>

\* the pairs (parameter or dependent gene, gene that owns it) of create()
OwnerOf ==
    { <<"meltrate", "snow">>, <<"snow_melt_temp", "snow">>,
      <<"lai", "canopy">>, <<"canopy_closure", "canopy">>,
      <<"beta_first_second", "tr_first_second">>,
      <<"v0_first_second", "tr_first_second">>,
      <<"beta_first_river", "tr_first_river">>,
      <<"v0_first_river", "tr_first_river">>,
      <<"beta_first_out", "tr_first_out">>,
      <<"v0_first_out", "tr_first_out">>,
      <<"beta_second_third", "tr_second_third">>,
      <<"beta_second_river", "tr_second_river">>,
      <<"beta_third_river", "tr_third_river">>,
      <<"beta_river_out", "river">>,
      <<"third_layer", "second_layer">> }

\* C13: in a genotype returned by create() every parameter gene comes with
\* the structural gene that owns it, and third_layer with second_layer
C13_CreateParamsHaveOwner ==
    pc = "returned" =>
        \A p \in OwnerOf : In(p[1], genes) => In(p[2], genes)

\* a returned genotype holding parameters of several owners
C13_Witness ==
    /\ pc = "returned"
    /\ In("meltrate", genes)
    /\ In("lai", genes)
    /\ In("v0_first_second", genes)
    /\ In("beta_second_third", genes)
    /\ In("beta_third_river", genes)
    /\ In("beta_river_out", genes)

\* C14: with second_layer present the returned genotype holds one of
\* tr_second_third, tr_second_river, and no round of the second-layer trials
\* is run once one of the two is present
C14_SecondLoopStopsAtFirstConnection ==
    /\ [](pc = "returned" /\ In("second_layer", genes) =>
            In("tr_second_third", genes) \/ In("tr_second_river", genes))
    /\ [][(pc = "second" /\ pc' = "second")
            => ~(In("tr_second_third", genes) \/ In("tr_second_river", genes))]_vars

\* C15: create() returns under the assumption that a trial attempted again
\* and again eventually succeeds; inside the second-layer loop a round in
\* which every trial fails is always possible and leaves the genotype as it
\* is, so without the assumption the loop need not exit
C15_CreateReturnsUnderFairTrials ==
    /\ <>(pc = "returned")
    /\ []((pc = "second" /\ In("second_layer", genes)
             /\ second_layer_loop_cond(genes))
            => ENABLED (RoundExplored(FALSE, FALSE, FALSE, FALSE)
                          /\ genes' = genes /\ pc' = pc))

\* create() has returned after more than one round of the second-layer loop
C15_Witness ==
    /\ pc = "returned"
    /\ In("second_layer", genes)
    /\ rounds >= 2

\* C16: whenever the sampling loop of an add mutation is entered, a gene of
\* gene_set is absent from the genotype, so the loop can find one
C16_AddSamplingFindsAbsentGene ==
    pc = "add_sample" =>
        \E i \in 1..Len(mutate_gene_set) : ~In(mutate_gene_set[i], genes)

\* the gene set a cache key denotes
KeySet(entry) == ToSet(entry.key) \ {" "}

\* C17: a stored cache entry is never removed or changed, no two keys
\* denote the same gene set, and the sampler has run once per stored set
C17_CacheAppendOnlyCanonical ==
    /\ [][/\ Len(models_so_far') >= Len(models_so_far)
          /\ \A i \in 1..Len(models_so_far) :
               models_so_far'[i] = models_so_far[i]]_vars
    /\ [](\A i, j \in 1..Len(models_so_far) :
            KeySet(models_so_far[i]) = KeySet(models_so_far[j]) => i = j)
    /\ [](calls = Len(models_so_far))

\* the empty genotype and a genotype with a repeated gene are cached, and
\* [snow] has been answered from the entry of [snow, snow]
C17_Witness ==
    /\ pc = "fitness"
    /\ Len(models_so_far) = 2
    /\ models_so_far[1].key = <<>>
    /\ models_so_far[2].key = <<"snow", " ", "snow">>
    /\ genes = <<"snow">>
    /\ fitness = models_so_far[2].value
    /\ calls = 2

\* C18 as stated: after an add or delete mutation of a duplicate-free
\* genotype over the universe the gene set differs from the one before
C18_AddDeleteNeverNoOp ==
    (pc = "mutated" /\ mutation_type \in {"add", "del"}
        /\ DupFreeOverUniverse(genes_before)) =>
        ToSet(genes) # ToSet(genes_before)

\* C18 as amended: every repetition of an add or delete mutation on a
\* duplicate-free genotype over the universe changes its gene set, so a
\* call that ran a single repetition is never a no-op
C18_AddDeleteRepetitionChangesSet ==
    /\ [][(mutation_type \in {"add", "del"} /\ reps_done' = reps_done + 1
             /\ DupFreeOverUniverse(genes))
           => ToSet(genes') # ToSet(genes)]_vars
    /\ []((pc = "mutated" /\ mutation_type \in {"add", "del"}
             /\ reps_done = 1 /\ DupFreeOverUniverse(genes_before))
           => ToSet(genes) # ToSet(genes_before))

\* a delete mutation of one repetition has removed a gene
C18_Witness ==
    /\ pc = "mutated"
    /\ mutation_type = "del"
    /\ reps = 1
    /\ genes_before = <<"snow", "canopy">>
    /\ Len(genes) = 1

\* C19: mutate completes without raising an error for every genotype,
\* the empty one included, whichever mutation kind is drawn
C19_MutateNeverRaises == pc # "raised"

====
